---- MODULE Spec2Model ----
(***************************************************************************)
(* Model of the RAR ITP checker (custom_components/rar_itp_checker).       *)
(*                                                                         *)
(* Text is modelled as a sequence of symbols.  For the OCR text a symbol   *)
(* is one character; for portal pages a symbol is one word, one blank or   *)
(* one punctuation mark, so that the substring tests, split(), strip()     *)
(* and lower() of the source are computed as the source computes them.     *)
(* Romanian diacritics are written without the diacritic marks.            *)
(***************************************************************************)
EXTENDS Integers, Sequences, FiniteSets, TLC

(***************************************************************************)
(* Bounds of the model.                                                    *)
(***************************************************************************)
MaxTextLen == 7
MaxNodes == 2

(***************************************************************************)
(* Python str helpers.                                                     *)
(***************************************************************************)
SeqsUpTo(S, n) == UNION {[1..k -> S] : k \in 0..n}

IsSpace(c) == c \in {" ", "\n", "\t"}

RECURSIVE LStrip(_)
LStrip(s) == IF s = <<>> THEN s
             ELSE IF IsSpace(Head(s)) THEN LStrip(Tail(s)) ELSE s

RECURSIVE RStrip(_)
RStrip(s) == IF s = <<>> THEN s
             ELSE IF IsSpace(s[Len(s)]) THEN RStrip(SubSeq(s, 1, Len(s) - 1)) ELSE s

\* str.strip()
Strip(s) == RStrip(LStrip(s))

RECURSIVE LStripChars(_, _)
LStripChars(s, cs) == IF s = <<>> THEN s
                      ELSE IF Head(s) \in cs THEN LStripChars(Tail(s), cs) ELSE s

RECURSIVE RStripChars(_, _)
RStripChars(s, cs) == IF s = <<>> THEN s
                      ELSE IF s[Len(s)] \in cs
                           THEN RStripChars(SubSeq(s, 1, Len(s) - 1), cs) ELSE s

\* str.strip(chars)
StripChars(s, cs) == RStripChars(LStripChars(s, cs), cs)

\* needle in hay
Contains(hay, needle) ==
    \E i \in 1..(Len(hay) - Len(needle) + 1) :
        SubSeq(hay, i, i + Len(needle) - 1) = needle

FirstIndex(hay, needle) ==
    CHOOSE i \in 1..(Len(hay) - Len(needle) + 1) :
        /\ SubSeq(hay, i, i + Len(needle) - 1) = needle
        /\ \A j \in 1..(i - 1) : SubSeq(hay, j, j + Len(needle) - 1) # needle

\* hay.split(needle, 1)[1], for a hay that contains the needle
AfterFirst(hay, needle) ==
    SubSeq(hay, FirstIndex(hay, needle) + Len(needle), Len(hay))

\* str.split(): the maximal runs of non-blank symbols
RECURSIVE SplitWS(_, _)
SplitWS(s, cur) ==
    IF s = <<>> THEN (IF cur = <<>> THEN <<>> ELSE <<cur>>)
    ELSE IF IsSpace(Head(s))
         THEN (IF cur = <<>> THEN <<>> ELSE <<cur>>) \o SplitWS(Tail(s), <<>>)
         ELSE SplitWS(Tail(s), Append(cur, Head(s)))

\* str.split(sep) for a one-symbol separator: empty pieces are kept
RECURSIVE SplitOn(_, _, _)
SplitOn(s, sep, cur) ==
    IF s = <<>> THEN <<cur>>
    ELSE IF Head(s) = sep
         THEN <<cur>> \o SplitOn(Tail(s), sep, <<>>)
         ELSE SplitOn(Tail(s), sep, Append(cur, Head(s)))

\* the words of the portal that exist in more than one letter case
LowerChar(c) ==
    CASE c = "Data" -> "data"
      [] c = "DATA" -> "data"
      [] c = "EXPIRARII" -> "expirarii"
      [] c = "Valabila" -> "valabila"
      [] c = "Nu" -> "nu"
      [] c = "Codul" -> "codul"
      [] c = "Mar" -> "mar"
      [] OTHER -> c

\* str.lower()
Lower(s) == [i \in DOMAIN s |-> LowerChar(s[i])]

\* the string a sequence of symbols spells
RECURSIVE Str(_)
Str(s) == IF s = <<>> THEN "" ELSE Head(s) \o Str(Tail(s))

\* str.zfill(2)
ZFill2(str) == IF Len(str) >= 2 THEN str
               ELSE IF Len(str) = 1 THEN "0" \o str
               ELSE "00"

(***************************************************************************)
(* BeautifulSoup: a document is a sequence of nodes; a node is a text node  *)
(* or an element with a name, an id attribute ("" when it has none) and    *)
(* children.                                                               *)
(***************************************************************************)
TextNode(s) == [kind |-> "text", text |-> s, name |-> "", id |-> "", children |-> <<>>]
Tag(n, i, kids) == [kind |-> "tag", text |-> <<>>, name |-> n, id |-> i, children |-> kids]

OpenTag(n) == IF n.id = "" THEN <<"<" \o n.name \o ">">>
              ELSE <<"<" \o n.name, " ", "id=\"" \o n.id \o "\">">>

\* the markup as the portal sends it: what response.text() returns
RECURSIVE Render(_)
Render(nodes) ==
    IF nodes = <<>> THEN <<>>
    ELSE LET n == Head(nodes)
         IN (IF n.kind = "text" THEN n.text
             ELSE OpenTag(n) \o Render(n.children) \o <<"</" \o n.name \o ">">>)
            \o Render(Tail(nodes))

\* BeautifulSoup(markup, "html.parser"): consecutive character data is one string
RECURSIVE BeautifulSoup(_)
BeautifulSoup(nodes) ==
    IF nodes = <<>> THEN <<>>
    ELSE LET n == Head(nodes)
             rest == BeautifulSoup(Tail(nodes))
         IN IF n.kind = "tag"
            THEN <<Tag(n.name, n.id, BeautifulSoup(n.children))>> \o rest
            ELSE IF n.text = <<>> THEN rest
            ELSE IF rest # <<>> /\ Head(rest).kind = "text"
                 THEN <<TextNode(n.text \o Head(rest).text)>> \o Tail(rest)
                 ELSE <<n>> \o rest

\* the nodes of a document in document order
RECURSIVE Flatten(_)
Flatten(nodes) ==
    IF nodes = <<>> THEN <<>>
    ELSE <<Head(nodes)>> \o Flatten(Head(nodes).children) \o Flatten(Tail(nodes))

\* soup.find(name, id=id): the first such element, as a sequence of 0 or 1 nodes
Find(soup, n, i) ==
    LET hits == SelectSeq(Flatten(soup),
                          LAMBDA e : e.kind = "tag" /\ e.name = n /\ e.id = i)
    IN IF hits = <<>> THEN <<>> ELSE <<Head(hits)>>

RECURSIVE Join(_, _)
Join(list, sep) ==
    IF list = <<>> THEN <<>>
    ELSE IF Len(list) = 1 THEN Head(list)
    ELSE Head(list) \o sep \o Join(Tail(list), sep)

\* tag.get_text(separator=sep, strip=True)
GetText(tag, sep) ==
    LET strings == SelectSeq(Flatten(tag.children), LAMBDA e : e.kind = "text")
        stripped == [k \in DOMAIN strings |-> Strip(strings[k].text)]
    IN Join(SelectSeq(stripped, LAMBDA t : t # <<>>), sep)

(***************************************************************************)
(* sensor.py, the OCR.Space solver.                                        *)
(***************************************************************************)
\* \d of a str pattern: the Unicode decimal digits; "U+0663" stands for the
\* ARABIC-INDIC DIGIT THREE, one that is not ASCII
DecimalDigits == {"0", "1", "2", "3", "4", "5", "6", "7", "8", "9", "U+0663"}

\* a pattern without the upper length: r"^\d{4,}$"
MatchesDigits4OrMore(result) ==
    /\ Len(result) >= 4
    /\ \A k \in DOMAIN result : result[k] \in DecimalDigits

\* re.match(r"^\d{4,6}$", result)
MatchesDigits4To6(result) ==
    /\ Len(result) >= 4
    /\ Len(result) <= 6
    /\ \A k \in DOMAIN result : result[k] \in DecimalDigits

OcrOk(text) == [ok |-> TRUE, text |-> text, msg |-> "", cause |-> ""]
OCRAPIError(m, c) == [ok |-> FALSE, text |-> <<>>, msg |-> m, cause |-> c]

\* lines 52-76: what the inner try block returns or raises
OcrInner(o) ==
    IF o.kind = "ClientError" \/ o.kind = "TimeoutError"
    THEN OCRAPIError("API request failed", o.kind)
    ELSE IF ~o.json THEN OCRAPIError("Non-JSON response from OCR API", "")
    ELSE IF ~o.decodes THEN OCRAPIError("JSONDecodeError", "")
    ELSE IF o.status # 200 THEN OCRAPIError("OCR API error", "")
    ELSE IF o.hasResults /\ o.ParsedResults = <<>> THEN OCRAPIError("IndexError", "")
    ELSE LET first == IF o.hasResults THEN Head(o.ParsedResults)
                      ELSE [hasText |-> FALSE, ParsedText |-> <<>>]
             result == Strip(IF first.hasText THEN first.ParsedText ELSE <<>>)
         IN IF result # <<>> /\ MatchesDigits4To6(result)
            THEN OcrOk(result)
            ELSE OCRAPIError("Invalid CAPTCHA format", "")

\* solve_captcha_with_ocrspace: every exception of the body is re-raised as
\* OCRAPIError("OCR processing failed") from e
solve_captcha_with_ocrspace(o) ==
    LET r == OcrInner(o)
    IN IF r.ok THEN r ELSE OCRAPIError("OCR processing failed", r.msg)

(***************************************************************************)
(* sensor.py, fetch_itp: the parsing of the result page.                   *)
(***************************************************************************)
REJECTED == <<"codul", " ", "de", " ", "verificare", " ", "a", " ", "fost", " ",
              "copiat", " ", "incorect">>
NO_RECORD == <<"nu", " ", "a", " ", "fost", " ", "gasita", " ", "nicio", " ",
               "inregistrare">>
VALABILA == <<"valabila", " ", "pana", " ", "la">>
DATA_EXPIRARII_LOWER == <<"data", " ", "expirarii">>
DATA_EXPIRARII == <<"Data", " ", "expirarii">>
Unknown == "Unknown"

MONTH_MAP == [ian |-> "01", feb |-> "02", mar |-> "03", apr |-> "04",
              mai |-> "05", iun |-> "06", iul |-> "07", aug |-> "08",
              sept |-> "09", oct |-> "10", nov |-> "11", dec |-> "12"]

\* MONTH_MAP.get(month, "01")
MonthGet(month) == IF month \in DOMAIN MONTH_MAP THEN MONTH_MAP[month] ELSE "01"

\* lines 193-200: the date after 'valabila pana la', Unknown on any exception
NewFormatDate(lower) ==
    LET fragment == AfterFirst(lower, VALABILA)
        words == SplitWS(fragment, <<>>)
    IN IF words = <<>> THEN Unknown
       ELSE LET raw_date == StripChars(Strip(words[1]), {"."})
                parts == SplitOn(raw_date, "-", <<>>)
            IN IF Len(parts) # 3 THEN Unknown
               ELSE Str(parts[3]) \o "-" \o MonthGet(Str(parts[2])) \o "-"
                    \o ZFill2(Str(parts[1]))

\* lines 203-211: the text of the element after 'Data expirarii', Unknown on
\* any exception
OldFormatDate(result_soup) ==
    LET flat == Flatten(result_soup)
        IsNode(k) == flat[k].kind = "text" /\ Contains(flat[k].text, DATA_EXPIRARII)
    IN IF ~\E k \in DOMAIN flat : IsNode(k) THEN Unknown
       ELSE LET node == CHOOSE k \in DOMAIN flat :
                            IsNode(k) /\ \A j \in 1..(k - 1) : ~IsNode(j)
                IsNext(k) == k > node /\ flat[k].kind = "tag"
            IN IF ~\E k \in DOMAIN flat : IsNext(k) THEN Unknown
               ELSE LET nxt == CHOOSE k \in DOMAIN flat :
                                   IsNext(k) /\ \A j \in 1..(k - 1) : ~IsNext(j)
                        raw == GetText(flat[nxt], <<>>)
                        parts == SplitOn(raw, ".", <<>>)
                    IN IF Len(parts) # 3 THEN Unknown
                       ELSE Str(parts[3]) \o "-" \o Str(parts[2]) \o "-" \o Str(parts[1])

\* lines 176-183
ContentText(result_text, result_soup) ==
    LET result_div == Find(result_soup, "div", "rezbgcolor")
    IN IF result_div # <<>> THEN GetText(result_div[1], <<"\n">>) ELSE result_text

\* lines 189-211
ExpirationDate(lower, result_soup) ==
    IF Contains(lower, VALABILA) THEN NewFormatDate(lower)
    ELSE IF Contains(lower, DATA_EXPIRARII_LOWER) THEN OldFormatDate(result_soup)
    ELSE Unknown

\* a parser that extracts the date before it classifies the page
ParseResultDateFirst(v, result_text, result_soup) ==
    LET lower == Lower(ContentText(result_text, result_soup))
    IN [vin |-> v,
        status |-> IF Contains(lower, NO_RECORD) THEN "Not Found" ELSE "Valid",
        expiration_date |-> ExpirationDate(lower, result_soup)]

\* lines 175-218: the record fetch_itp returns for a result page
ParseResult(v, result_text, result_soup) ==
    LET lower == Lower(ContentText(result_text, result_soup))
    IN IF Contains(lower, NO_RECORD)
       THEN [vin |-> v, status |-> "Not Found", expiration_date |-> Unknown]
       ELSE [vin |-> v, status |-> "Valid",
             expiration_date |-> ExpirationDate(lower, result_soup)]

\* line 161
CaptchaRejected(result_text) == Contains(Lower(result_text), REJECTED)

(***************************************************************************)
(* The inputs of one lookup: what the portal and the OCR backend answer.   *)
(***************************************************************************)
Vins == {"WAUZZZ8K79A000000"}

\* the landing page: whether <img id="imgVerf"> is there and has a src
LandingOutcomes ==
    {[kind |-> "TimeoutError", img |-> FALSE, src |-> FALSE],
     [kind |-> "ClientError", img |-> FALSE, src |-> FALSE]}
    \cup [kind : {"response"}, img : {TRUE}, src : BOOLEAN]
    \cup {[kind |-> "response", img |-> FALSE, src |-> FALSE]}

DownloadOutcomes == {"TimeoutError", "ClientError", "response"}

OcrAlphabet == {"7", "a", " "}
OcrTexts == SeqsUpTo(OcrAlphabet, MaxTextLen)
            \cup {<<"1", "2", "a", "4", "5">>, <<"\n", "0", "1", "2", "3", "\n">>,
                  <<"U+0663", "7", "7", "7">>, <<"7", "7", "7", ".", "7">>}

OcrResponse(j, d, st, h, rs) ==
    [kind |-> "response", json |-> j, decodes |-> d, status |-> st,
     hasResults |-> h, ParsedResults |-> rs]

OcrOutcomes ==
    {[kind |-> k, json |-> FALSE, decodes |-> FALSE, status |-> 0,
      hasResults |-> FALSE, ParsedResults |-> <<>>] : k \in {"ClientError", "TimeoutError"}}
    \cup {OcrResponse(FALSE, FALSE, st, FALSE, <<>>) : st \in {200, 500}}
    \cup {OcrResponse(TRUE, FALSE, 200, FALSE, <<>>)}
    \cup {OcrResponse(TRUE, TRUE, 403, FALSE, <<>>)}
    \cup {OcrResponse(TRUE, TRUE, 200, h, <<>>) : h \in BOOLEAN}
    \cup {OcrResponse(TRUE, TRUE, 200, TRUE, <<[hasText |-> FALSE, ParsedText |-> <<>>]>>)}
    \cup {OcrResponse(TRUE, TRUE, 200, TRUE, <<[hasText |-> TRUE, ParsedText |-> t]>>) :
              t \in OcrTexts}

\* pages of the portal
RejectedPage ==
    <<Tag("div", "content", <<TextNode(<<"Codul", " ", "de", " ", "verificare", " ", "a",
                                         " ", "fost", " ", "copiat", " ", "incorect">>)>>)>>
NotFoundPage ==
    <<Tag("div", "rezbgcolor", <<TextNode(<<"Nu", " ", "a", " ", "fost", " ", "gasita", " ",
                                            "nicio", " ", "inregistrare">>)>>)>>
ValidPage ==
    <<Tag("div", "rezbgcolor", <<TextNode(<<"ITP", " ", "valabila", " ", "pana", " ", "la",
                                            " ", "5", "-", "mar", "-", "2026", ".">>)>>)>>
LegacyPage ==
    <<Tag("tr", "", <<Tag("td", "", <<TextNode(<<"Data", " ", "expirarii">>)>>),
                      Tag("td", "", <<TextNode(<<"05", ".", "03", ".", "2026">>)>>)>>)>>
ErrorPage ==
    <<Tag("h1", "", <<TextNode(<<"500", " ", "Internal", " ", "Server", " ", "Error">>)>>)>>

SubmitResponses ==
    [kind : {"response"}, status : {200},
     markup : {RejectedPage, NotFoundPage, ValidPage, LegacyPage}]
    \cup [kind : {"response"}, status : {500, 403}, markup : {ErrorPage}]

SubmitFailures == [kind : {"TimeoutError", "ClientError"}, status : {0}, markup : {<<>>}]

(***************************************************************************)
(* sensor.py, fetch_itp: one invocation.                                   *)
(***************************************************************************)
VARIABLES
    vin,              \* the argument of fetch_itp
    pc,               \* "idle", "start", "get", "download", "solve", "post", "sleep",
                      \* "returned", "raised"
    attempt,          \* the loop variable of line 92
    captcha_content,  \* the image bytes: the number of the download, 0 when unbound
    captcha_text,     \* the solver's text
    clean_captcha,    \* form_data["verif_cod"] of the last POST
    result_status,    \* result_response.status, 0 when unbound
    result_text,      \* the body of the last POST response
    result_soup,      \* BeautifulSoup(result_text)
    ret,              \* the returned record, as a sequence of 0 or 1 records
    raised,           \* the messages of the UpdateFailed raised to the caller
    nGet, nDownload, nOcr, nPost, nSleep,   \* calls made so far
    lastFailure,      \* how the previous attempt failed: "", "timeout", "ocr", "rejected", "error"
    ocrCause,         \* the message of the exception inside the last OCRAPIError
    slept,            \* asyncio.sleep(2) ran since the previous attempt ended
    solveTries,       \* solver calls made in the attempt that last reached the solver
    landingAttempt,   \* the attempt that loaded the landing page last, -1 when none
    imageAttempt,     \* the attempt that downloaded captcha_content, -1 when none
    textAttempt,      \* the attempt that solved captcha_text, -1 when none
    nRejected,        \* responses with the rejection phrase so far
    session,          \* the ClientSession of line 87: its number, 0 before it is made
    nSessions,        \* ClientSessions made so far
    openSessions,     \* the ClientSessions not yet released
    usedSession,      \* <<attempt, session>> for every portal request made
    upc,              \* async_update_data: "idle", "call", "await", "sleep", "returned", "raised"
    update_attempt,   \* the loop variable of line 334
    update_ret,       \* what async_update_data returned, as a sequence of 0 or 1 values
    update_raised,    \* the messages of the UpdateFailed async_update_data raised
    fetchCalls,       \* the outcomes of the fetch_itp invocations of this refresh, in order
    portalAttempts,   \* portal attempts of the invocations that have ended
    nUpdateSleep,     \* asyncio.sleep(2) calls of line 341
    updSlept,         \* line 341 ran since the previous invocation ended
    registry,         \* the keys of hass.data[DOMAIN]
    service,          \* the handler of rar_itp_checker.check_now: <<>> or <<its entry's vin>>
    entryState,       \* per config entry: "not_loaded", "loaded", "failed_unload"
    requested,        \* the vins whose coordinator the last check_now asked to refresh
    op,               \* the last host operation
    regBefore,        \* registry before the last host operation
    svcBefore,        \* service before the last host operation
    today,            \* date.today()
    expiration_date,  \* coordinator.data.get("expiration_date"): <<>> for None, else <<string>>
    native_value,     \* the last value of ITPDaysLeftSensor.native_value, <<>> before the first
    readings          \* <<today, value>> of every native_value read so far

control == <<pc, attempt, raised>>
data == <<vin, captcha_content, captcha_text, clean_captcha, result_status, result_text,
          result_soup, ret>>
calls == <<nGet, nDownload, nOcr, nPost, nSleep>>
hist == <<lastFailure, ocrCause, slept, solveTries, landingAttempt, imageAttempt,
          textAttempt, nRejected>>
sess == <<session, nSessions, openSessions, usedSession>>
upd == <<upc, update_attempt, update_ret, update_raised, fetchCalls, portalAttempts,
         nUpdateSleep, updSlept>>
reg == <<registry, service, entryState, requested, op, regBefore, svcBefore>>
clock == <<today, expiration_date, native_value, readings>>
vars == <<control, data, calls, hist, sess, upd, reg, clock>>

\* the config entries of the integration, each with its own vin
MaxEntries == 2
Entries == 1 .. MaxEntries
VinOf(e) == "VIN" \o ToString(e)

\* no host operation yet
NoOp == [name |-> "none", vin |-> "", result |-> ""]

\* the day the model starts on
FirstDay == [y |-> 2024, m |-> 2, d |-> 27]

\* fetch_itp called on its own: no refresh, no config entry, no sensor read
NoUpdate ==
    /\ upc = "idle"
    /\ update_attempt = 0
    /\ update_ret = <<>>
    /\ update_raised = <<>>
    /\ fetchCalls = <<>>
    /\ portalAttempts = 0
    /\ nUpdateSleep = 0
    /\ updSlept = FALSE

NoEntries ==
    /\ registry = {}
    /\ service = <<>>
    /\ entryState = [e \in Entries |-> "not_loaded"]
    /\ requested = {}
    /\ op = NoOp
    /\ regBefore = {}
    /\ svcBefore = <<>>

NoReading ==
    /\ today = FirstDay
    /\ expiration_date = <<>>
    /\ native_value = <<>>
    /\ readings = {}

\* the locals of fetch_itp before line 85
NotStarted ==
    /\ attempt = 0
    /\ captcha_content = 0
    /\ captcha_text = <<>>
    /\ clean_captcha = <<>>
    /\ result_status = 0
    /\ result_text = <<>>
    /\ result_soup = <<>>
    /\ ret = <<>>
    /\ raised = <<>>
    /\ nGet = 0 /\ nDownload = 0 /\ nOcr = 0 /\ nPost = 0 /\ nSleep = 0
    /\ lastFailure = ""
    /\ ocrCause = ""
    /\ slept = FALSE
    /\ solveTries = 0
    /\ landingAttempt = -1
    /\ imageAttempt = -1
    /\ textAttempt = -1
    /\ nRejected = 0
    /\ session = 0 /\ nSessions = 0 /\ openSessions = {} /\ usedSession = {}

Init ==
    /\ vin \in Vins
    /\ pc = "start"
    /\ NotStarted
    /\ NoUpdate /\ NoEntries /\ NoReading

\* a retry that does not advance the loop variable
NextAttemptStuck(a) == a

\* for attempt in range(3)
NextAttempt(a) == a + 1
InRange(a) == a < 3

\* "if attempt == 2:  # Last attempt"
IsLastAttempt(a) == a = 2

\* a solver failure that calls the solver again on the image at hand
OnOcrErrorSolveAgain(a) == IF IsLastAttempt(a) THEN "raise" ELSE "solve"

\* lines 120-124: what follows an OCRAPIError
OnOcrError(a) == IF IsLastAttempt(a) THEN "raise" ELSE "continue"

\* a rejection that solves the image at hand again
OnCaptchaRejectedSolveAgain(a) == IF IsLastAttempt(a) THEN "raise" ELSE "solve"

\* lines 161-164: what follows a response with the rejection phrase
OnCaptchaRejected(a) == IF IsLastAttempt(a) THEN "raise" ELSE "continue"

\* lines 168-173: what follows an UpdateFailed raised inside the loop body
OnUpdateFailed(a) == IF IsLastAttempt(a) THEN "raise" ELSE "sleep"

\* line 123: the failure raised for an OCRAPIError e on the last attempt
SolveFailedMessage(e) == "Failed to solve CAPTCHA after 3 attempts"

\* lines 223-225: any other exception ends the invocation at once
Unexpected(err) ==
    /\ pc' = "raised"
    /\ raised' = <<"ITP check failed: " \o err>>
    /\ attempt' = attempt

\* lines 168-173
UpdateFailed(msg) ==
    IF OnUpdateFailed(attempt) = "raise"
    THEN /\ pc' = "raised"
         /\ raised' = <<msg>>
         /\ attempt' = attempt
    ELSE /\ pc' = "sleep"
         /\ UNCHANGED <<attempt, raised>>

\* "continue": the next iteration of the loop of line 92; after the last
\* iteration the code below the loop runs, with result_text as the last POST
\* left it (unbound: UnboundLocalError, handled by lines 223-225)
Continue(target) ==
    IF InRange(NextAttempt(attempt))
    THEN /\ pc' = target
         /\ attempt' = NextAttempt(attempt)
         /\ UNCHANGED <<raised, ret>>
    ELSE /\ attempt' = attempt
         /\ IF nPost = 0
            THEN /\ pc' = "raised"
                 /\ raised' = <<"ITP check failed: UnboundLocalError">>
                 /\ ret' = ret
            ELSE /\ pc' = "returned"
                 /\ raised' = raised
                 /\ ret' = <<ParseResult(vin, result_text', result_soup')>>

\* the three ways out of a failed step
Leave(way, msg) ==
    IF way = "raise" THEN UpdateFailed(msg) /\ ret' = ret
    ELSE IF way = "continue" THEN Continue("get")
    ELSE IF way = "sleep" THEN pc' = "sleep" /\ UNCHANGED <<attempt, raised, ret>>
    ELSE Continue(way)

\* a session that is never released
SessionsKept(p, s, open) == open

\* the end of the "async with" of line 87: the session is released when the
\* invocation ends at p, by a return or by an exception
SessionsAfter(p, s, open) == IF p \in {"returned", "raised"} THEN open \ {s} ELSE open

\* line 87: async with aiohttp.ClientSession(timeout=timeout) as session
EnterSession ==
    /\ pc = "start"
    /\ pc' = "get"
    /\ nSessions' = nSessions + 1
    /\ session' = nSessions + 1
    /\ openSessions' = openSessions \cup {nSessions + 1}
    /\ UNCHANGED <<attempt, raised, data, calls, hist, usedSession, upd, reg, clock>>

\* lines 94-104
GetLanding ==
    /\ pc = "get"
    /\ \E o \in LandingOutcomes :
        /\ nGet' = nGet + 1
        /\ usedSession' = usedSession \cup {<<attempt, session>>}
        /\ UNCHANGED <<session, nSessions, upd, reg, clock>>
        /\ slept' = FALSE
        /\ solveTries' = 0
        /\ UNCHANGED <<vin, captcha_content, captcha_text, clean_captcha, result_status,
                       result_text, result_soup, nDownload, nOcr, nPost, nSleep, ocrCause,
                       imageAttempt, textAttempt, nRejected>>
        /\ CASE o.kind = "TimeoutError" ->
                  /\ UpdateFailed("Timeout connecting to RAR website")
                  /\ lastFailure' = "timeout"
                  /\ UNCHANGED <<ret, landingAttempt>>
             [] o.kind = "ClientError" ->
                  /\ Unexpected("ClientError")
                  /\ lastFailure' = "error"
                  /\ UNCHANGED <<ret, landingAttempt>>
             [] o.kind = "response" /\ ~(o.img /\ o.src) ->
                  /\ Unexpected("CAPTCHA image not found")
                  /\ lastFailure' = "error"
                  /\ landingAttempt' = attempt
                  /\ ret' = ret
             [] OTHER ->
                  /\ pc' = "download"
                  /\ lastFailure' = ""
                  /\ landingAttempt' = attempt
                  /\ UNCHANGED <<attempt, raised, ret>>
        /\ openSessions' = SessionsAfter(pc', session, openSessions)

\* lines 106-114
DownloadCaptcha ==
    /\ pc = "download"
    /\ \E o \in DownloadOutcomes :
        /\ nDownload' = nDownload + 1
        /\ usedSession' = usedSession \cup {<<attempt, session>>}
        /\ UNCHANGED <<session, nSessions, upd, reg, clock>>
        /\ UNCHANGED <<vin, captcha_text, clean_captcha, result_status, result_text,
                       result_soup, ret, nGet, nOcr, nPost, nSleep, ocrCause, slept,
                       solveTries, landingAttempt, textAttempt, nRejected>>
        /\ CASE o = "TimeoutError" ->
                  /\ UpdateFailed("Timeout downloading CAPTCHA image")
                  /\ lastFailure' = "timeout"
                  /\ UNCHANGED <<captcha_content, imageAttempt>>
             [] o = "ClientError" ->
                  /\ Unexpected("ClientError")
                  /\ lastFailure' = "error"
                  /\ UNCHANGED <<captcha_content, imageAttempt>>
             [] OTHER ->
                  /\ pc' = "solve"
                  /\ captcha_content' = nDownload + 1
                  /\ imageAttempt' = attempt
                  /\ UNCHANGED <<attempt, raised, lastFailure>>
        /\ openSessions' = SessionsAfter(pc', session, openSessions)

\* lines 116-124; the solver makes a ClientSession of its own (line 45) and
\* releases it before it returns
Solve(o) ==
        LET r == solve_captcha_with_ocrspace(o)
        IN /\ nOcr' = nOcr + 1
           /\ solveTries' = solveTries + 1
           /\ nSessions' = nSessions + 1
           /\ UNCHANGED <<session, usedSession, upd, reg, clock>>
           /\ UNCHANGED <<vin, captcha_content, clean_captcha, result_status, result_text,
                          result_soup, nGet, nDownload, nPost, nSleep, slept,
                          landingAttempt, imageAttempt, nRejected>>
           /\ IF r.ok
              THEN /\ pc' = "post"
                   /\ captcha_text' = r.text
                   /\ textAttempt' = attempt
                   /\ UNCHANGED <<attempt, raised, ret, lastFailure, ocrCause>>
              ELSE /\ Leave(OnOcrError(attempt), SolveFailedMessage(r))
                   /\ lastFailure' = "ocr"
                   /\ ocrCause' = r.cause
                   /\ UNCHANGED <<captcha_text, textAttempt>>
           /\ openSessions' = SessionsAfter(pc', session, openSessions)

SolveCaptcha ==
    /\ pc = "solve"
    /\ \E o \in OcrOutcomes : Solve(o)

\* re.sub(r"\D", "", captcha_text)
CleanCaptcha(text) == SelectSeq(text, LAMBDA c : c \in DecimalDigits)

\* lines 126-166 and, after the break, lines 175-218: the POST answered by o
Submit(o) ==
    /\ nPost' = nPost + 1
    /\ clean_captcha' = CleanCaptcha(captcha_text)
    /\ usedSession' = usedSession \cup {<<attempt, session>>}
    /\ UNCHANGED <<session, nSessions, upd, reg, clock>>
    /\ UNCHANGED <<vin, captcha_content, captcha_text, nGet, nDownload, nOcr, nSleep,
                   ocrCause, slept, solveTries, landingAttempt, imageAttempt, textAttempt>>
    /\ CASE o.kind = "TimeoutError" ->
              /\ UpdateFailed("Timeout submitting form to RAR website")
              /\ lastFailure' = "timeout"
              /\ UNCHANGED <<result_status, result_text, result_soup, ret, nRejected>>
         [] o.kind = "ClientError" ->
              /\ Unexpected("ClientError")
              /\ lastFailure' = "error"
              /\ UNCHANGED <<result_status, result_text, result_soup, ret, nRejected>>
         [] OTHER ->
              /\ result_status' = o.status
              /\ result_text' = Render(o.markup)
              /\ result_soup' = BeautifulSoup(o.markup)
              /\ IF CaptchaRejected(result_text')
                 THEN /\ Leave(OnCaptchaRejected(attempt),
                               "CAPTCHA validation failed after 3 attempts")
                      /\ lastFailure' = "rejected"
                      /\ nRejected' = nRejected + 1
                 ELSE /\ pc' = "returned"
                      /\ ret' = <<ParseResult(vin, result_text', result_soup')>>
                      /\ UNCHANGED <<attempt, raised, lastFailure, nRejected>>
    /\ openSessions' = SessionsAfter(pc', session, openSessions)

SubmitForm ==
    /\ pc = "post"
    /\ \E o \in SubmitFailures \cup SubmitResponses : Submit(o)

\* lines 172-173
Sleep ==
    /\ pc = "sleep"
    /\ nSleep' = nSleep + 1
    /\ slept' = TRUE
    /\ Continue("get")
    /\ openSessions' = SessionsAfter(pc', session, openSessions)
    /\ UNCHANGED <<session, nSessions, usedSession, upd, reg, clock>>
    /\ UNCHANGED <<data, nGet, nDownload, nOcr, nPost, lastFailure, ocrCause, solveTries,
                   landingAttempt, imageAttempt, textAttempt, nRejected>>

Next == EnterSession \/ GetLanding \/ DownloadCaptcha \/ SolveCaptcha \/ SubmitForm \/ Sleep

Spec == Init /\ [][Next]_vars

(***************************************************************************)
(* The parsing of the result page, over a larger set of pages: the lookup  *)
(* has loaded the landing page, downloaded the image and solved it, and    *)
(* the portal answers the POST of the first attempt.                       *)
(***************************************************************************)
PageNodes ==
    {TextNode(<<"Nu", " ", "a", " ", "fost", " ", "gasita", " ", "nicio", " ",
                "inregistrare">>),
     TextNode(<<"ITP", " ", "valabila", " ", "pana", " ", "la", " ", "5", "-", "mar", "-",
                "2026", ".">>),
     TextNode(<<"Valabila", " ", "pana", " ", "la", " ">>),
     Tag("b", "", <<TextNode(<<"17", "-", "xyz", "-", "2027">>)>>),
     Tag("td", "", <<TextNode(<<"Data", " ", "expirarii">>)>>),
     Tag("td", "", <<TextNode(<<"05", ".", "03", ".", "2026">>)>>),
     TextNode(<<" ", "05", ".", "03", " ">>),
     TextNode(<<"valabila", " ", "pana", " ", "la", " ", "2026", "-", "03", "-", "05">>)}

Pages ==
    {<<Tag("div", "rezbgcolor", inner)>> \o outer :
         inner \in SeqsUpTo(PageNodes, MaxNodes), outer \in SeqsUpTo(PageNodes, 1)}
    \cup {inner \o outer :
         inner \in SeqsUpTo(PageNodes, MaxNodes), outer \in SeqsUpTo(PageNodes, 1)}

PageResponses == [kind : {"response"}, status : {200}, markup : Pages]

InitParse ==
    /\ vin \in Vins
    /\ pc = "post"
    /\ session = 1 /\ nSessions = 2 /\ openSessions = {1} /\ usedSession = {<<0, 1>>}
    /\ NoUpdate /\ NoEntries /\ NoReading
    /\ attempt = 0
    /\ captcha_content = 1
    /\ captcha_text = <<"7", "7", "7", "7">>
    /\ clean_captcha = <<>>
    /\ result_status = 0
    /\ result_text = <<>>
    /\ result_soup = <<>>
    /\ ret = <<>>
    /\ raised = <<>>
    /\ nGet = 1 /\ nDownload = 1 /\ nOcr = 1 /\ nPost = 0 /\ nSleep = 0
    /\ lastFailure = ""
    /\ ocrCause = ""
    /\ slept = FALSE
    /\ solveTries = 1
    /\ landingAttempt = 0
    /\ imageAttempt = 0
    /\ textAttempt = 0
    /\ nRejected = 0

SubmitPage ==
    /\ pc = "post"
    /\ \E o \in PageResponses : Submit(o)

NextParse == SubmitPage

SpecParse == InitParse /\ [][NextParse]_vars

(***************************************************************************)
(* The claims.                                                             *)
(***************************************************************************)
(* sensor.py, async_update_data (lines 332-342): one refresh of the        *)
(* coordinator, around the invocations of fetch_itp.                       *)
(***************************************************************************)
\* a loop that never sees its last iteration
UpdateIsLastNever(a) == FALSE

\* line 338: if attempt == 2
UpdateIsLast(a) == a = 2

\* the value of a function that ends without a return statement
NoRecord == [vin |-> "", status |-> "None", expiration_date |-> ""]

\* the solver's replies during a refresh
RefreshOcrOutcomes ==
    {[kind |-> "TimeoutError", json |-> FALSE, decodes |-> FALSE, status |-> 0,
      hasResults |-> FALSE, ParsedResults |-> <<>>],
     OcrResponse(TRUE, TRUE, 403, FALSE, <<>>),
     OcrResponse(TRUE, TRUE, 200, TRUE,
                 <<[hasText |-> TRUE, ParsedText |-> <<"7", "7", "7", "7">>]>>)}

InitUpdate ==
    /\ vin \in Vins
    /\ pc = "idle"
    /\ NotStarted
    /\ upc = "call"
    /\ update_attempt = 0
    /\ update_ret = <<>>
    /\ update_raised = <<>>
    /\ fetchCalls = <<>>
    /\ portalAttempts = 0
    /\ nUpdateSleep = 0
    /\ updSlept = FALSE
    /\ NoEntries /\ NoReading

\* line 336: fetch_itp(vin, ocr_key) is called
CallFetch ==
    /\ upc = "call"
    /\ upc' = "await"
    /\ pc' = "start"
    /\ attempt' = 0
    /\ captcha_content' = 0
    /\ captcha_text' = <<>>
    /\ clean_captcha' = <<>>
    /\ result_status' = 0
    /\ result_text' = <<>>
    /\ result_soup' = <<>>
    /\ ret' = <<>>
    /\ raised' = <<>>
    /\ nGet' = 0 /\ nDownload' = 0 /\ nOcr' = 0 /\ nPost' = 0 /\ nSleep' = 0
    /\ lastFailure' = ""
    /\ ocrCause' = ""
    /\ slept' = FALSE
    /\ solveTries' = 0
    /\ landingAttempt' = -1
    /\ imageAttempt' = -1
    /\ textAttempt' = -1
    /\ nRejected' = 0
    /\ session' = 0 /\ nSessions' = 0 /\ openSessions' = {} /\ usedSession' = {}
    /\ updSlept' = FALSE
    /\ UNCHANGED <<vin, update_attempt, update_ret, update_raised, fetchCalls,
                   portalAttempts, nUpdateSleep, reg, clock>>

SolveCaptchaInRefresh ==
    /\ pc = "solve"
    /\ \E o \in RefreshOcrOutcomes : Solve(o)

\* line 336: return await fetch_itp(...)
UpdateReturn ==
    /\ upc = "await"
    /\ pc = "returned"
    /\ upc' = "returned"
    /\ update_ret' = ret
    /\ fetchCalls' = Append(fetchCalls, "returned")
    /\ portalAttempts' = portalAttempts + nGet
    /\ UNCHANGED <<control, data, calls, hist, sess, update_attempt, update_raised,
                   nUpdateSleep, updSlept, reg, clock>>

\* lines 337-339: except UpdateFailed
UpdateCatch ==
    /\ upc = "await"
    /\ pc = "raised"
    /\ fetchCalls' = Append(fetchCalls, "UpdateFailed")
    /\ portalAttempts' = portalAttempts + nGet
    /\ IF UpdateIsLast(update_attempt)
       THEN /\ upc' = "raised"
            /\ update_raised' = raised
       ELSE /\ upc' = "sleep"
            /\ update_raised' = update_raised
    /\ UNCHANGED <<control, data, calls, hist, sess, update_attempt, update_ret,
                   nUpdateSleep, updSlept, reg, clock>>

\* lines 341-342: the delay, then the next iteration; after the last
\* iteration the function ends without a value
UpdateSleep ==
    /\ upc = "sleep"
    /\ nUpdateSleep' = nUpdateSleep + 1
    /\ updSlept' = TRUE
    /\ IF InRange(update_attempt + 1)
       THEN /\ upc' = "call"
            /\ update_attempt' = update_attempt + 1
            /\ update_ret' = update_ret
       ELSE /\ upc' = "returned"
            /\ update_attempt' = update_attempt
            /\ update_ret' = <<NoRecord>>
    /\ UNCHANGED <<control, data, calls, hist, sess, update_raised, fetchCalls,
                   portalAttempts, reg, clock>>

NextUpdate ==
    \/ CallFetch
    \/ EnterSession \/ GetLanding \/ DownloadCaptcha \/ SolveCaptchaInRefresh \/ SubmitForm
    \/ Sleep
    \/ UpdateReturn \/ UpdateCatch \/ UpdateSleep

SpecUpdate == InitUpdate /\ [][NextUpdate]_vars

(***************************************************************************)
(* __init__.py: the config entries, the registry hass.data[DOMAIN] and the *)
(* check_now service.                                                      *)
(***************************************************************************)
\* sensor.py lines 352-356: the first refresh of the entry's coordinator
FirstRefreshOutcomes == {"ok", "UpdateFailed"}

\* what the host does with the ConfigEntryNotReady that the sensor platform
\* raises inside async_forward_entry_setups: it reaches async_setup_entry, or
\* the platform setup logs it and async_forward_entry_setups returns
PlatformErrorOutcomes == {"propagates", "logged"}

Record(n, v, r) == [name |-> n, vin |-> v, result |-> r]

\* __init__.py lines 6-19, with the sensor platform's setup (sensor.py
\* lines 327-366) inside the await of line 9
SetupEntry ==
    \E e \in Entries, refresh \in FirstRefreshOutcomes, err \in PlatformErrorOutcomes :
        /\ entryState[e] = "not_loaded"
        /\ regBefore' = registry
        /\ svcBefore' = service
        /\ requested' = {}
        /\ registry' = IF refresh = "ok" THEN registry \cup {VinOf(e)} ELSE registry
        /\ IF refresh = "ok" \/ err = "logged"
           THEN /\ service' = <<VinOf(e)>>
                /\ entryState' = [entryState EXCEPT ![e] = "loaded"]
                /\ op' = Record("setup", VinOf(e), "True")
           ELSE /\ UNCHANGED <<service, entryState>>
                /\ op' = Record("setup", VinOf(e), "ConfigEntryNotReady")
        /\ UNCHANGED <<control, data, calls, hist, sess, upd, clock>>

\* __init__.py lines 21-28
UnloadEntry ==
    \E e \in Entries, unload_ok \in BOOLEAN :
        /\ entryState[e] = "loaded"
        /\ regBefore' = registry
        /\ svcBefore' = service
        /\ requested' = {}
        /\ IF ~unload_ok
           THEN /\ op' = Record("unload", VinOf(e), "False")
                /\ UNCHANGED <<registry, service, entryState>>
           ELSE IF VinOf(e) \notin registry
           THEN /\ op' = Record("unload", VinOf(e), "KeyError")
                /\ entryState' = [entryState EXCEPT ![e] = "failed_unload"]
                /\ UNCHANGED <<registry, service>>
           ELSE /\ op' = Record("unload", VinOf(e), "True")
                /\ registry' = registry \ {VinOf(e)}
                /\ service' = IF registry' = {} THEN <<>> ELSE service
                /\ entryState' = [entryState EXCEPT ![e] = "not_loaded"]
        /\ UNCHANGED <<control, data, calls, hist, sess, upd, clock>>

\* __init__.py lines 11-15: the registered handler runs
CheckNow ==
    /\ service # <<>>
    /\ regBefore' = registry
    /\ svcBefore' = service
    /\ requested' = IF service[1] \in registry THEN {service[1]} ELSE {}
    /\ op' = Record("check_now", service[1], "")
    /\ UNCHANGED <<registry, service, entryState>>
    /\ UNCHANGED <<control, data, calls, hist, sess, upd, clock>>

InitRegistry ==
    /\ vin \in Vins
    /\ pc = "idle"
    /\ NotStarted
    /\ NoUpdate /\ NoEntries /\ NoReading

NextRegistry == SetupEntry \/ UnloadEntry \/ CheckNow

SpecRegistry == InitRegistry /\ [][NextRegistry]_vars

(***************************************************************************)
(* The days-left sensor: calculate_days_until, lines 228-236, read through *)
(* ITPDaysLeftSensor.native_value.  A date string is a sequence of         *)
(* characters; a date is a record [y, m, d].                               *)
(***************************************************************************)
MaxMidnights == 3

AsciiDigits == {"0", "1", "2", "3", "4", "5", "6", "7", "8", "9"}
DigitValue(c) ==
    CASE c = "0" -> 0 [] c = "1" -> 1 [] c = "2" -> 2 [] c = "3" -> 3 [] c = "4" -> 4
      [] c = "5" -> 5 [] c = "6" -> 6 [] c = "7" -> 7 [] c = "8" -> 8 [] OTHER -> 9

\* int() of a sequence of digits
RECURSIVE IntOf(_)
IntOf(ds) == IF ds = <<>> THEN 0 ELSE 10 * IntOf(SubSeq(ds, 1, Len(ds) - 1)) + DigitValue(ds[Len(ds)])

\* the calendar of datetime.date
IsLeap(y) == y % 4 = 0 /\ (y % 100 # 0 \/ y % 400 = 0)

\* a calendar in which every month has 31 days
DaysInMonthFlat(y, m) == 31

DaysInMonth(y, m) ==
    IF m = 2 /\ IsLeap(y) THEN 29
    ELSE <<31, 28, 31, 30, 31, 30, 31, 31, 30, 31, 30, 31>>[m]

DaysBeforeMonth(y, m) ==
    <<0, 31, 59, 90, 120, 151, 181, 212, 243, 273, 304, 334>>[m]
        + (IF m > 2 /\ IsLeap(y) THEN 1 ELSE 0)

DaysBeforeYear(y) == (y - 1) * 365 + (y - 1) \div 4 - (y - 1) \div 100 + (y - 1) \div 400

\* date.toordinal()
Ordinal(t) == DaysBeforeYear(t.y) + DaysBeforeMonth(t.y, t.m) + t.d

\* the day after t
Tomorrow(t) ==
    IF t.d < DaysInMonth(t.y, t.m) THEN [t EXCEPT !.d = t.d + 1]
    ELSE IF t.m < 12 THEN [y |-> t.y, m |-> t.m + 1, d |-> 1]
    ELSE [y |-> t.y + 1, m |-> 1, d |-> 1]

NoDate == [ok |-> FALSE, y |-> 0, m |-> 0, d |-> 0]

\* %m of strptime: 1[0-2] | 0[1-9] | [1-9]; the number of characters it
\* takes from the front of s, 0 when it does not match
MatchMonth(s) ==
    IF Len(s) >= 2 /\ s[1] = "1" /\ s[2] \in {"0", "1", "2"} THEN 2
    ELSE IF Len(s) >= 2 /\ s[1] = "0" /\ s[2] \in AsciiDigits \ {"0"} THEN 2
    ELSE IF Len(s) >= 1 /\ s[1] \in AsciiDigits \ {"0"} THEN 1
    ELSE 0

\* %d of strptime: 3[0-1] | [1-2]\d | 0[1-9] | [1-9] | " "[1-9]
MatchDay(s) ==
    IF Len(s) >= 2 /\ s[1] = "3" /\ s[2] \in {"0", "1"} THEN 2
    ELSE IF Len(s) >= 2 /\ s[1] \in {"1", "2"} /\ s[2] \in AsciiDigits THEN 2
    ELSE IF Len(s) >= 2 /\ s[1] = "0" /\ s[2] \in AsciiDigits \ {"0"} THEN 2
    ELSE IF Len(s) >= 1 /\ s[1] \in AsciiDigits \ {"0"} THEN 1
    ELSE IF Len(s) >= 2 /\ s[1] = " " /\ s[2] \in AsciiDigits \ {"0"} THEN 2
    ELSE 0

\* datetime.strptime(s, "%Y-%m-%d").date(): four digits, "-", a month, "-",
\* a day and nothing after it, naming a day of the calendar; NoDate stands
\* for ValueError
strptime(s) ==
    IF ~(Len(s) >= 5 /\ (\A k \in 1 .. 4 : s[k] \in AsciiDigits) /\ s[5] = "-") THEN NoDate
    ELSE LET year == IntOf(SubSeq(s, 1, 4))
             s1 == SubSeq(s, 6, Len(s))
             lm == MatchMonth(s1)
         IN IF lm = 0 \/ Len(s1) < lm + 1 \/ s1[lm + 1] # "-" THEN NoDate
            ELSE LET month == IntOf(SubSeq(s1, 1, lm))
                     s2 == SubSeq(s1, lm + 2, Len(s1))
                     ld == MatchDay(s2)
                 IN IF ld = 0 \/ Len(s2) # ld THEN NoDate
                    ELSE LET day == IntOf(SelectSeq(s2, LAMBDA c : c # " "))
                         IN IF year < 1 \/ day > DaysInMonth(year, month) THEN NoDate
                            ELSE [ok |-> TRUE, y |-> year, m |-> month, d |-> day]

None == [none |-> TRUE, days |-> 0]
Days(n) == [none |-> FALSE, days |-> n]

UnknownChars == <<"U", "n", "k", "n", "o", "w", "n">>

\* lines 228-236, with date.today() = t; e is <<>> for None, else <<string>>
calculate_days_until(e, t) ==
    IF e = <<>> \/ e[1] = <<>> \/ e[1] = UnknownChars THEN None
    ELSE LET exp == strptime(e[1])
         IN IF exp.ok THEN Days(Ordinal(exp) - Ordinal(t)) ELSE None

\* the values of coordinator.data.get("expiration_date")
YearParts == {<<"2", "0", "2", "4">>, <<"2", "0", "2", "5">>, <<"0", "0", "0", "0">>, <<"2", "4">>}
MonthParts == {<<"0", "2">>, <<"2">>, <<"0", "3">>, <<"1", "3">>, <<"0", "0">>, <<"m", "a", "r">>}
DayParts == {<<"2", "8">>, <<"2", "9">>, <<"3", "0">>, <<"5">>, <<"0", "5">>, <<" ", "5">>, <<"0">>, <<"5", " ">>}
Separators == {"-", "."}
DateStrings ==
    {<<>>, UnknownChars}
        \cup {y \o <<p>> \o m \o <<p>> \o d :
                y \in YearParts, m \in MonthParts, d \in DayParts, p \in Separators}
ExpirationDates == {<<>>} \cup {<<str>> : str \in DateStrings}

InitDays ==
    /\ vin \in Vins
    /\ pc = "idle"
    /\ NotStarted
    /\ NoUpdate /\ NoEntries
    /\ today = FirstDay
    /\ expiration_date \in ExpirationDates
    /\ native_value = <<>>
    /\ readings = {}

\* lines 320-324: the state of the sensor is read
NativeValue ==
    /\ native_value' = <<calculate_days_until(expiration_date, today)>>
    /\ readings' = readings \cup {<<today, calculate_days_until(expiration_date, today)>>}
    /\ UNCHANGED <<control, data, calls, hist, sess, upd, reg, today, expiration_date>>

\* date.today() moves on
Midnight ==
    /\ Ordinal(today) - Ordinal(FirstDay) < MaxMidnights
    /\ today' = Tomorrow(today)
    /\ UNCHANGED <<control, data, calls, hist, sess, upd, reg, expiration_date,
                   native_value, readings>>

NextDays == NativeValue \/ Midnight

SpecDays == InitDays /\ [][NextDays]_vars

(***************************************************************************)
Terminal == pc \in {"returned", "raised"}

\* C1: an invocation ends in exactly one of two ways: it returns the record
\* parsed from a POST response without the rejection phrase, or, with its
\* attempts used up, it raises one UpdateFailed and returns no record.
C1_RecordOrSingleFailure ==
    /\ pc = "returned" =>
          /\ Len(ret) = 1
          /\ raised = <<>>
          /\ nPost >= 1
          /\ ~Contains(Lower(result_text), REJECTED)
          /\ ret[1] = ParseResult(vin, result_text, result_soup)
    /\ pc = "raised" =>
          /\ ret = <<>>
          /\ Len(raised) = 1
          /\ nGet = 3
    /\ ~Terminal => ret = <<>> /\ raised = <<>>

\* C2: one invocation makes at most 3 landing-page GETs, 3 image downloads,
\* 3 form POSTs and 9 OCR calls.
C2_AtMostThreeAttempts ==
    /\ nGet <= 3
    /\ nDownload <= 3
    /\ nPost <= 3
    /\ nOcr <= 9
    /\ attempt <= 2

C2_ThreeRoundTrips == nGet = 3 /\ nDownload = 3 /\ nOcr = 3 /\ nPost = 3 /\ Terminal

\* C3: a failure inside the first or the second attempt leads to the next
\* attempt; a failure reaches the caller only after the third attempt failed.
C3_FailureOnlyAfterThirdAttempt == pc = "raised" => attempt = 2

\* C4: after a response with the rejection phrase the next OCR call and the
\* next POST come after a new landing-page load and a new image download; the
\* solver and the POST never use the image of an earlier attempt.
C4_FreshChallengeAfterRejection ==
    /\ pc = "solve" =>
          /\ landingAttempt = attempt
          /\ imageAttempt = attempt
          /\ captcha_content = nDownload
    /\ pc = "post" =>
          /\ landingAttempt = attempt
          /\ imageAttempt = attempt
          /\ textAttempt = attempt
    /\ (lastFailure = "rejected" /\ ~Terminal) => pc = "get" /\ landingAttempt < attempt
    /\ (lastFailure = "rejected" /\ Terminal) => pc = "raised" /\ attempt = 2

C4_PostAfterRejection == nRejected >= 1 /\ pc = "post" /\ captcha_content = nDownload

C6_DelayBetweenAttempts ==
    /\ (pc = "get" /\ attempt > 0) => slept
    /\ Terminal => ~slept
    /\ nSleep <= attempt

\* C7: a POST response with a non-2xx status is an attempt failure; its body
\* is never parsed into a returned record.
C7_ErrorStatusNeverParsed == pc = "returned" => result_status \in 200..299

OcrCauses == {"API request failed", "Non-JSON response from OCR API", "JSONDecodeError",
              "OCR API error", "IndexError", "Invalid CAPTCHA format"}

\* C8: when the last attempt fails because the OCR text is not a 4 to 6 digit
\* code, the failure the caller receives tells that cause from the other
\* solver failures, and there is no record.
C8_FailureCitesInvalidFormat ==
    (pc = "raised" /\ lastFailure = "ocr" /\ ocrCause = "Invalid CAPTCHA format") =>
        /\ ret = <<>>
        /\ \A c \in OcrCauses \ {ocrCause} :
               raised[1] # SolveFailedMessage(OCRAPIError("OCR processing failed", c))

IsCode(t) == \E n \in 4..6 : t \in [1..n -> DecimalDigits]

\* the code inside raw, when raw is a code between blanks
TrimmedCodes(raw) ==
    {t \in {SubSeq(raw, i, j) : i \in 1..Len(raw), j \in 1..Len(raw)} :
        /\ IsCode(t)
        /\ \E a \in 0..Len(raw) :
              /\ a + Len(t) <= Len(raw)
              /\ SubSeq(raw, a + 1, a + Len(t)) = t
              /\ \A k \in 1..a : IsSpace(raw[k])
              /\ \A k \in (a + Len(t) + 1)..Len(raw) : IsSpace(raw[k])}

ParsedTextOf(o) ==
    IF o.kind = "response" /\ o.json /\ o.decodes /\ o.status = 200 /\ o.hasResults
       /\ o.ParsedResults # <<>> /\ o.ParsedResults[1].hasText
    THEN <<o.ParsedResults[1].ParsedText>> ELSE <<>>

\* C9: the solver returns text only for a 200 JSON answer whose first
\* ParsedText, trimmed, is 4 to 6 decimal digits (the digits of \d), and
\* raises OCRAPIError for every other outcome; the code of every form POST
\* is 4 to 6 digits.
C9_OnlyDigitCodesSubmitted ==
    /\ pc = "solve" =>
          \A o \in OcrOutcomes :
              LET r == solve_captcha_with_ocrspace(o)
                  codes == IF ParsedTextOf(o) = <<>> THEN {}
                           ELSE TrimmedCodes(ParsedTextOf(o)[1])
              IN IF codes # {} THEN r.ok /\ r.text \in codes
                 ELSE ~r.ok /\ r.msg = "OCR processing failed"
    /\ pc = "post" => IsCode(captcha_text)
    /\ nPost > 0 => IsCode(clean_captcha)

C9_SixDigitCodePosted == nPost > 0 /\ Len(clean_captcha) = 6 /\ nOcr >= 2

\* C10: a returned record has an expiration date only when its status is
\* "Valid"; when the classified text contains the no-record phrase the status
\* is "Not Found" and the date is "Unknown", whatever else the text holds.
C10_DateOnlyWhenValid ==
    pc = "returned" =>
        LET lower == Lower(ContentText(result_text, result_soup))
        IN /\ ret[1].expiration_date # Unknown => ret[1].status = "Valid"
           /\ Contains(lower, NO_RECORD) =>
                 ret[1].status = "Not Found" /\ ret[1].expiration_date = Unknown

C10_NoRecordWithDate ==
    /\ pc = "returned"
    /\ ret[1].status = "Not Found"
    /\ Contains(Lower(ContentText(result_text, result_soup)), VALABILA)
    /\ NewFormatDate(Lower(ContentText(result_text, result_soup))) = "2026-03-05"

(***************************************************************************)
(* The shapes of the date tokens, for the claims about the parser.         *)
(***************************************************************************)
DayWords == {"5", "05", "17"}
MonthWords == DOMAIN MONTH_MAP \cup {"xyz"}
YearWords == {"2026", "2027"}

\* d-mmm-yyyy
IsNewToken(w) ==
    /\ Len(w) = 5
    /\ w[1] \in DayWords /\ w[2] = "-" /\ w[3] \in MonthWords /\ w[4] = "-"
    /\ w[5] \in YearWords

\* the dates a token DD.MM.YYYY of the pages spells
LegacyDates == {"2026-03-05"}

\* the word after the first 'valabila pana la' of a text, without the dots
\* around it; <<>> when there is none
WordAfterPhrase(text) ==
    LET words == SplitWS(AfterFirst(text, VALABILA), <<>>)
    IN IF words = <<>> THEN <<>> ELSE StripChars(words[1], {"."})

\* yyyy-MM-dd of a token d-mmm-yyyy
DateOfToken(w) ==
    w[5] \o "-" \o (IF w[3] \in DOMAIN MONTH_MAP THEN MONTH_MAP[w[3]] ELSE "01") \o "-"
         \o (IF Len(w[1]) = 1 THEN "0" \o w[1] ELSE w[1])

Classified == Lower(ContentText(result_text, result_soup))

Container == Find(result_soup, "div", "rezbgcolor")

\* the text of the fragment: of the container, or of the whole page (the
\* character data without the markup) when there is no container
FragmentText ==
    IF Container # <<>> THEN GetText(Container[1], <<"\n">>)
    ELSE LET strings == SelectSeq(Flatten(result_soup), LAMBDA e : e.kind = "text")
         IN Join([k \in DOMAIN strings |-> strings[k].text], <<>>)

\* C11: for a Valid result the current format is tried first and the legacy
\* format second: when the current format yields no date (no phrase, or no
\* d-mmm-yyyy token after it) and the text has a 'Data expirarii' field with
\* a DD.MM.YYYY token, the expiration date is the legacy one.
C11_LegacyWhenCurrentFails ==
    (/\ pc = "returned"
     /\ ret[1].status = "Valid"
     /\ Contains(Classified, DATA_EXPIRARII_LOWER)
     /\ OldFormatDate(result_soup) \in LegacyDates
     /\ \/ ~Contains(Classified, VALABILA)
        \/ ~IsNewToken(WordAfterPhrase(Classified)))
    => ret[1].expiration_date = OldFormatDate(result_soup)

\* C12: with the container present, status and date depend on the container
\* only: the page yields what the container alone yields.
C12_ContainerAloneDecides ==
    (pc = "returned" /\ Container # <<>>) =>
        LET alone == ParseResult(vin, Render(Container), Container)
        IN /\ ret[1].status = alone.status
           /\ ret[1].expiration_date = alone.expiration_date

\* C13: a token that is not d-mmm-yyyy after 'valabila pana la', or not
\* DD.MM.YYYY after 'Data expirarii', yields a Valid record without a date:
\* a date comes only from a well-shaped token.
C13_MalformedTokenGivesNoDate ==
    (pc = "returned" /\ ret[1].status = "Valid" /\ ret[1].expiration_date # Unknown) =>
        \/ Contains(Classified, VALABILA) /\ IsNewToken(WordAfterPhrase(Classified))
        \/ ~Contains(Classified, VALABILA) /\ ret[1].expiration_date \in LegacyDates

\* C14: for a Valid fragment whose text has a token d-mmm-yyyy after
\* 'valabila pana la', the date is yyyy-MM-dd with the day padded to two
\* digits and the month from MONTH_MAP, "01" for an unknown abbreviation.
C14_CurrentFormatDate ==
    (/\ pc = "returned"
     /\ ret[1].status = "Valid"
     /\ Contains(Lower(FragmentText), VALABILA)
     /\ IsNewToken(WordAfterPhrase(Lower(FragmentText))))
    => ret[1].expiration_date = DateOfToken(WordAfterPhrase(Lower(FragmentText)))

LongMonths == {1, 3, 5, 7, 8, 10, 12}
LeapYears == {2024, 2028}
LastDayOf(y, m) ==
    IF m \in LongMonths THEN 31 ELSE IF m # 2 THEN 30 ELSE IF y \in LeapYears THEN 29 ELSE 28

\* the first day of the month after t's
NextMonth(t) ==
    IF t.m < 12 THEN [y |-> t.y, m |-> t.m + 1, d |-> 1]
    ELSE [y |-> t.y + 1, m |-> 1, d |-> 1]

Before(a, b) ==
    \/ a.y < b.y
    \/ a.y = b.y /\ a.m < b.m
    \/ a.y = b.y /\ a.m = b.m /\ a.d < b.d

\* the days from a to b, b not before a
RECURSIVE DaysFromTo(_, _)
DaysFromTo(a, b) ==
    IF a.y = b.y /\ a.m = b.m THEN b.d - a.d
    ELSE (LastDayOf(a.y, a.m) - a.d + 1) + DaysFromTo(NextMonth(a), b)

SignedDays(a, b) == IF Before(b, a) THEN 0 - DaysFromTo(b, a) ELSE DaysFromTo(a, b)

AllDigits(s) == \A k \in DOMAIN s : s[k] \in AsciiDigits

\* the parts of a string between its hyphens
DateParts(str) == SplitOn(str, "-", <<>>)

\* the numbers of a date written in three parts, a blank before a one-digit
\* day allowed
DateOf(parts) ==
    [y |-> IntOf(parts[1]), m |-> IntOf(parts[2]),
     d |-> IntOf(SelectSeq(parts[3], LAMBDA c : c # " "))]

IsCalendarDay(t) ==
    /\ t.y \in 1 .. 9999
    /\ t.m \in 1 .. 12
    /\ t.d \in 1 .. LastDayOf(t.y, t.m)

\* YYYY-MM-DD: four, two and two digits
IsIsoDate(str) ==
    /\ Len(DateParts(str)) = 3
    /\ <<Len(DateParts(str)[1]), Len(DateParts(str)[2]), Len(DateParts(str)[3])>> = <<4, 2, 2>>
    /\ \A k \in 1 .. 3 : AllDigits(DateParts(str)[k])
    /\ IsCalendarDay(DateOf(DateParts(str)))

\* a four-digit year, a month of one or two digits, a day of one or two
\* digits or of a blank and a digit
IsYmdDate(str) ==
    /\ Len(DateParts(str)) = 3
    /\ Len(DateParts(str)[1]) = 4
    /\ Len(DateParts(str)[2]) \in {1, 2}
    /\ Len(DateParts(str)[3]) \in {1, 2}
    /\ AllDigits(DateParts(str)[1]) /\ AllDigits(DateParts(str)[2])
    /\ \/ AllDigits(DateParts(str)[3])
       \/ DateParts(str)[3][1] = " " /\ AllDigits(Tail(DateParts(str)[3]))
               /\ Len(DateParts(str)[3]) = 2
    /\ IsCalendarDay(DateOf(DateParts(str)))

SameDayReadsAgree == \A p, q \in readings : p[1] = q[1] => p[2] = q[2]

\* C16 as stated: for a fixed today every read gives the same value; for a
\* date YYYY-MM-DD it is the signed number of days from today to the date,
\* and for None, "Unknown" and every other string it is None.
C16_DaysOfIsoDateElseNone ==
    /\ SameDayReadsAgree
    /\ \A r \in readings :
          IF expiration_date # <<>> /\ IsIsoDate(expiration_date[1])
          THEN r[2] = Days(SignedDays(r[1], DateOf(DateParts(expiration_date[1]))))
          ELSE r[2] = None

\* C16: for a fixed today every read gives the same value; for a string
\* that names a calendar day as year-month-day with a four-digit year and a
\* month and a day of one or two digits (the day also as a blank and a
\* digit) it is the signed number of days from today to that day, and for
\* None, "", "Unknown" and every other string it is None.
C16_DaysOfYmdDateElseNone ==
    /\ SameDayReadsAgree
    /\ \A r \in readings :
          IF expiration_date # <<>> /\ IsYmdDate(expiration_date[1])
          THEN r[2] = Days(SignedDays(r[1], DateOf(DateParts(expiration_date[1]))))
          ELSE r[2] = None

C16_UnpaddedDatePastAndFuture ==
    /\ expiration_date # <<>>
    /\ IsYmdDate(expiration_date[1]) /\ ~IsIsoDate(expiration_date[1])
    /\ \E r \in readings : ~r[2].none /\ r[2].days < 0
    /\ \E r \in readings : ~r[2].none /\ r[2].days > 0

\* C17: whenever an entry is loaded (its vin is in the registry), a call of
\* check_now asks that entry's coordinator to refresh.
C17_CheckNowRefreshesEveryLoadedEntry ==
    op.name = "check_now" => \A e \in Entries : VinOf(e) \in registry => VinOf(e) \in requested

\* the refresh has ended
UpdateDone == upc \in {"returned", "raised"}

\* fetch_itp invocations started so far
Started == Len(fetchCalls) + (IF upc = "await" THEN 1 ELSE 0)

\* C18: one refresh invokes fetch_itp at most 3 times, with one delay
\* between consecutive invocations, so at most 9 portal attempts are made;
\* it returns the record of the first invocation that succeeds, raises
\* UpdateFailed only when all three invocations raised it, and never ends
\* with no value.
C18_ThreeInvocationsPerRefresh ==
    /\ Started <= 3
    /\ portalAttempts + (IF upc = "await" THEN nGet ELSE 0) <= 9
    /\ upc \in {"call", "await"} => nUpdateSleep = update_attempt
    /\ upc = "call" /\ fetchCalls # <<>> => updSlept
    /\ \A k \in 1 .. Len(fetchCalls) - 1 : fetchCalls[k] = "UpdateFailed"
    /\ upc = "returned" =>
          /\ fetchCalls[Len(fetchCalls)] = "returned"
          /\ update_ret = ret /\ Len(ret) = 1 /\ ret[1] # NoRecord
          /\ update_raised = <<>>
    /\ upc = "raised" =>
          /\ fetchCalls = <<"UpdateFailed", "UpdateFailed", "UpdateFailed">>
          /\ update_raised = raised /\ Len(raised) = 1
          /\ update_ret = <<>>

C18_NinePortalAttemptsThenRaised ==
    /\ upc = "raised"
    /\ portalAttempts = 9
    /\ nUpdateSleep = 2

\* C19: an unload that succeeds removes the entry's vin from the registry
\* and nothing else, and removes the service exactly when the registry is
\* empty afterwards; an unload whose platform unload fails changes neither;
\* so between the setups and unloads the service is registered exactly when
\* the registry holds an entry.
C19_ServiceIffRegistryNotEmpty ==
    /\ (service # <<>>) <=> (registry # {})
    /\ op.name = "unload" /\ op.result = "True" =>
          /\ op.vin \in regBefore
          /\ registry = regBefore \ {op.vin}
          /\ service = IF registry = {} THEN <<>> ELSE svcBefore
    /\ op.name = "unload" /\ op.result = "False" =>
          /\ registry = regBefore
          /\ service = svcBefore

====
